---- MODULE Spec2Model ----
(***************************************************************************)
(* A model of pmctl: the profile registry kept in config.toml              *)
(* (src/pmctl/config.py), the request lookup in a collection tree and the  *)
(* environment resolution of the command layer (src/pmctl/cli.py).         *)
(*                                                                         *)
(* A Python str is modelled as a sequence of one-character strings, so     *)
(* that writing a value into the TOML text and reading it back, lowering   *)
(* its case and searching it for a substring are computed character by     *)
(* character.                                                              *)
(***************************************************************************)
EXTENDS Integers, Sequences, FiniteSets, TLC

VARIABLES
    file,       \* config.toml: whether it exists and its lines
    prev,       \* config.toml as it was before the last config operation
    last,       \* the last config operation: its arguments and its outcome
    got,        \* what the last get_profile was asked for and handed back
    registry,   \* round trip: the in-memory Config handed to save_config
    reloaded,   \* round trip: what load_config returned afterwards
    rt,         \* round trip: "start", "saved" or "loaded"
    items,      \* request lookup: the collection's item list
    query,      \* request lookup: the name asked for
    matches,    \* request lookup: what _find_requests returned
    fr,         \* request lookup: "start" or "done", "exit" once the command ended
    json_output, \* request lookup: the --json output mode
    out,        \* request lookup: what the command printed and its exit status
    envs,       \* the environments the remote service holds
    id_or_name, \* environment resolution: the identifier given
    workspace_id, \* environment resolution: the workspace scope, <<>> for none
    pc,         \* environment resolution: where the function stands
    calls,      \* environment resolution: the API calls made so far
    listed,     \* environment resolution: the name matches found in the list
    result,     \* environment resolution: what the function returned or raised
    procs,      \* two invocations at once: each one's command, position, registry
    saved,      \* two invocations at once: who wrote the file, in order
    base        \* two invocations at once: the file before either ran

vars == <<file, prev, last, got, registry, reloaded, rt, items, query, matches, fr, json_output, out, envs, id_or_name, workspace_id, pc, calls, listed, result, procs, saved, base>>

configVars == <<file, prev, last, got>>

roundTripVars == <<registry, reloaded, rt>>

findVars == <<items, query, matches, fr, json_output, out>>

envVars == <<envs, id_or_name, workspace_id, pc, calls, listed, result>>

raceVars == <<procs, saved, base>>

(***************************************************************************)
(* The TOML text of config.toml.  A line is either a table header          *)
(* [profiles.<raw>] or a pair <key> = "<raw>"; raw is the text between the *)
(* brackets or the quotes exactly as written.  Blank lines carry no        *)
(* meaning in TOML and are left out.                                       *)
(***************************************************************************)
Line(t, key, raw) == [t |-> t, key |-> key, raw |-> raw]

NoFile == [exists |-> FALSE, lines |-> <<>>]

Profile(name, api_key, label) == [name |-> name, api_key |-> api_key, label |-> label]

Config(profiles, default_profile) ==
    [profiles |-> profiles, default_profile |-> default_profile]

EmptyConfig == Config(<<>>, <<>>)

\* The keys of the profiles dict, in insertion order.
Keys(profiles) == [i \in 1..Len(profiles) |-> profiles[i].name]

KeySet(profiles) == {profiles[i].name : i \in 1..Len(profiles)}

\* profiles[name], for a name in the dict.
Lookup(profiles, name) ==
    profiles[CHOOSE i \in 1..Len(profiles) : profiles[i].name = name]

(***************************************************************************)
(* tomllib, as far as the files of this model go.                          *)
(***************************************************************************)
\* The characters of a bare (unquoted) key among the characters used here.
BareKeyChars == {"a", "b", "g", "k", "l"}

\* A basic string: a backslash starts an escape sequence; of the characters
\* used here only a second backslash completes one, and a backslash before
\* the closing quote leaves the string unterminated.
Prepend(c, r) == [ok |-> r.ok, val |-> <<c>> \o r.val]

RECURSIVE parse_basic_str_from(_, _)
parse_basic_str_from(raw, i) ==
    IF i > Len(raw) THEN [ok |-> TRUE, val |-> <<>>]
    ELSE IF raw[i] = "\\"
         THEN IF i + 1 <= Len(raw) /\ raw[i + 1] = "\\"
              THEN Prepend("\\", parse_basic_str_from(raw, i + 2))
              ELSE [ok |-> FALSE, val |-> <<>>]
         ELSE Prepend(raw[i], parse_basic_str_from(raw, i + 1))

parse_basic_str(raw) == parse_basic_str_from(raw, 1)

\* A dotted key: the parts between the dots, each a non-empty bare key.
RECURSIVE key_parts_from(_, _, _)
key_parts_from(raw, i, parts) ==
    IF i > Len(raw) THEN parts
    ELSE IF raw[i] = "."
         THEN key_parts_from(raw, i + 1, Append(parts, <<>>))
         ELSE key_parts_from(raw, i + 1,
                  [parts EXCEPT ![Len(parts)] = Append(@, raw[i])])

checked_key(parts) ==
    [ok   |-> \A p \in 1..Len(parts) :
                 /\ parts[p] # <<>>
                 /\ \A c \in 1..Len(parts[p]) : parts[p][c] \in BareKeyChars,
     path |-> parts]

parse_key(raw) == checked_key(key_parts_from(raw, 1, << <<>> >>))

\* The parser's state: the table being filled (cur, relative to profiles;
\* <<>> is the root), the tables declared, the keys set, the names under
\* profiles in the order they first appear, and the values read.
ParseStart ==
    [ok |-> TRUE, cur |-> <<>>, declared |-> {}, keys |-> {},
     hasDefault |-> FALSE, default |-> <<>>, tops |-> <<>>, vals |-> {}]

ParseFail(st) == [st EXCEPT !.ok = FALSE]

\* [profiles.<raw>]: k is the key parsed from raw.
declare_table(st, k) ==
    IF ~k.ok \/ k.path \in st.declared THEN ParseFail(st)
    ELSE [st EXCEPT !.cur = k.path,
                    !.declared = @ \cup {k.path},
                    !.tops = IF \E i \in 1..Len(@) : @[i] = k.path[1]
                             THEN @ ELSE Append(@, k.path[1])]

parse_table(st, raw) == declare_table(st, parse_key(raw))

\* <key> = "<raw>": v is the string parsed from raw.  A root default_profile
\* and the keys of a table [profiles.<name>] are kept.
set_pair(st, key, v) ==
    IF ~v.ok \/ <<st.cur, key>> \in st.keys THEN ParseFail(st)
    ELSE [st EXCEPT
            !.keys = @ \cup {<<st.cur, key>>},
            !.hasDefault = @ \/ (st.cur = <<>> /\ key = "default_profile"),
            !.default = IF st.cur = <<>> /\ key = "default_profile"
                        THEN v.val ELSE @,
            !.vals = IF Len(st.cur) = 1
                     THEN @ \cup {[name |-> st.cur[1], key |-> key, val |-> v.val]}
                     ELSE @]

parse_pair(st, key, raw) == set_pair(st, key, parse_basic_str(raw))

RECURSIVE tomllib_load_from(_, _, _)
tomllib_load_from(lines, i, st) ==
    IF i > Len(lines) \/ ~st.ok THEN st
    ELSE tomllib_load_from(lines, i + 1,
             IF lines[i].t = "table"
             THEN parse_table(st, lines[i].raw)
             ELSE parse_pair(st, lines[i].key, lines[i].raw))

tomllib_load(lines) == tomllib_load_from(lines, 1, ParseStart)

HasVal(data, name, key) == \E v \in data.vals : v.name = name /\ v.key = key

GetVal(data, name, key, dflt) ==
    IF HasVal(data, name, key)
    THEN (CHOOSE v \in data.vals : v.name = name /\ v.key = key).val
    ELSE dflt

(***************************************************************************)
(* config.py                                                               *)
(***************************************************************************)
Raise(err) == [err |-> err, config |-> EmptyConfig]

Return(config) == [err |-> "ok", config |-> config]

\* The profiles of the parsed file, in the order of the file.
profiles_of(data) ==
    [i \in 1..Len(data.tops) |->
        Profile(data.tops[i],
                GetVal(data, data.tops[i], "api_key", <<>>),
                GetVal(data, data.tops[i], "label", <<>>))]

config_of_lastdefault(data) ==
    IF ~data.ok THEN Raise("TOMLDecodeError")
    ELSE IF \E i \in 1..Len(data.tops) : ~HasVal(data, data.tops[i], "api_key")
    THEN Raise("KeyError")
    ELSE IF data.tops = <<>> THEN Raise("EmptyRegistry")
    ELSE Return(Config(profiles_of(data),
                       IF data.hasDefault THEN data.default
                       ELSE data.tops[Len(data.tops)]))

\* load_config once the file is read: data is what tomllib.load returned.
config_of(data) ==
    IF ~data.ok THEN Raise("TOMLDecodeError")
    ELSE IF \E i \in 1..Len(data.tops) : ~HasVal(data, data.tops[i], "api_key")
    THEN Raise("KeyError")
    ELSE IF data.tops = <<>> THEN Raise("EmptyRegistry")
    ELSE Return(Config(profiles_of(data),
                       IF data.hasDefault THEN data.default ELSE data.tops[1]))

load_config(f) ==
    IF ~f.exists THEN Raise("ConfigNotFound")
    ELSE config_of(tomllib_load(f.lines))

section_lines(p) ==
    <<Line("table", "", p.name), Line("kv", "api_key", p.api_key)>>
    \o (IF p.label # <<>> THEN <<Line("kv", "label", p.label)>> ELSE <<>>)

RECURSIVE profile_lines(_)
profile_lines(profiles) ==
    IF profiles = <<>> THEN <<>>
    ELSE section_lines(Head(profiles)) \o profile_lines(Tail(profiles))

save_config(config) ==
    [exists |-> TRUE,
     lines  |-> <<Line("kv", "default_profile", config.default_profile)>>
                \o profile_lines(config.profiles)]

\* profile_name = name or self.default_profile: no name given, or an empty
\* one, selects the default.
profile_named(config, profile_name) ==
    IF profile_name \notin KeySet(config.profiles)
    THEN [err |-> "ProfileNotFound", available |-> Keys(config.profiles),
          profile |-> Profile(<<>>, <<>>, <<>>)]
    ELSE [err |-> "ok", available |-> <<>>,
          profile |-> Lookup(config.profiles, profile_name)]

get_profile(config, name) ==
    profile_named(config, IF name.given /\ name.val # <<>>
                          THEN name.val ELSE config.default_profile)

\* config.profiles[name] = profile: an existing key keeps its place.
SetItem(profiles, p) ==
    IF p.name \in KeySet(profiles)
    THEN [i \in 1..Len(profiles) |->
             IF profiles[i].name = p.name THEN p ELSE profiles[i]]
    ELSE Append(profiles, p)

\* del config.profiles[name]
DelItem(profiles, name) == SelectSeq(profiles, LAMBDA p : p.name # name)

\* What an operation hands back: the error raised or the Config returned,
\* and the file it leaves.
Outcome(err, config, f) == [err |-> err, config |-> config, file |-> f]

\* save_config(config); return config
Saved(config) == Outcome("ok", config, save_config(config))

\* add_profile after its load_config: config is the registry loaded, or
\* Config(profiles={}, default_profile=name) when there was no file.
add_to(config, profiles, name, set_default) ==
    Saved(Config(profiles,
                 IF set_default \/ Len(profiles) = 1
                 THEN name ELSE config.default_profile))

add_loaded(r, f, name, api_key, label, set_default) ==
    IF r.err = "ConfigNotFound"
    THEN add_to(Config(<<>>, name), <<Profile(name, api_key, label)>>,
                name, set_default)
    ELSE IF r.err # "ok" THEN Outcome(r.err, EmptyConfig, f)
    ELSE add_to(r.config, SetItem(r.config.profiles, Profile(name, api_key, label)),
                name, set_default)

add_profile(f, name, api_key, label, set_default) ==
    add_loaded(load_config(f), f, name, api_key, label, set_default)

remove_from_keepdefault(config, profiles, name) ==
    Saved(Config(profiles, config.default_profile))

\* remove_profile after the del: profiles are the remaining ones.
remove_from(config, profiles, name) ==
    Saved(Config(profiles,
                 IF config.default_profile = name
                 THEN IF profiles = <<>> THEN <<>> ELSE profiles[1].name
                 ELSE config.default_profile))

remove_loaded(r, f, name) ==
    IF r.err # "ok" THEN Outcome(r.err, EmptyConfig, f)
    ELSE IF name \notin KeySet(r.config.profiles)
    THEN Outcome("ProfileNotFound", EmptyConfig, f)
    ELSE remove_from(r.config, DelItem(r.config.profiles, name), name)

remove_profile(f, name) == remove_loaded(load_config(f), f, name)

\* config.default_profile = name; save_config(config), and only then the
\* test of name
set_default_loaded_savefirst(r, f, name) ==
    IF r.err # "ok" THEN Outcome(r.err, EmptyConfig, f)
    ELSE IF name \notin KeySet(r.config.profiles)
    THEN Outcome("ProfileNotFound", EmptyConfig,
                 save_config(Config(r.config.profiles, name)))
    ELSE Saved(Config(r.config.profiles, name))

set_default_loaded(r, f, name) ==
    IF r.err # "ok" THEN Outcome(r.err, EmptyConfig, f)
    ELSE IF name \notin KeySet(r.config.profiles)
    THEN Outcome("ProfileNotFound", EmptyConfig, f)
    ELSE Saved(Config(r.config.profiles, name))

set_default_profile(f, name) == set_default_loaded(load_config(f), f, name)

(***************************************************************************)
(* The arguments the commands are run with.                                *)
(***************************************************************************)
ProfileNames == {<<"a">>, <<"b">>, <<"a", ".", "b">>}

Labels == {<<>>, <<"l">>}

\* The --api-key and --label a profile is added with.
KeysAndLabels ==
    {[api_key |-> <<"k">>, label |-> <<>>],
     [api_key |-> <<"\\", "\\">>, label |-> <<"l">>]}

NoName == [given |-> FALSE, val |-> <<>>]

Named(name) == [given |-> TRUE, val |-> name]

Op(op, name, api_key, label, set_default, err, config) ==
    [op |-> op, name |-> name, api_key |-> api_key, label |-> label,
     set_default |-> set_default, err |-> err, config |-> config]

NoOp == Op("none", <<>>, <<>>, <<>>, FALSE, "ok", EmptyConfig)

Got(name, err, profile, available) ==
    [given |-> name.given, name |-> name.val, err |-> err,
     profile |-> profile, available |-> available]

NoGot == Got(NoName, "none", Profile(<<>>, <<>>, <<>>), <<>>)

RoundTripIdle ==
    /\ registry = EmptyConfig
    /\ reloaded = Raise("none")
    /\ rt = "idle"

\* What collections request wrote and how it ended: the paths it listed,
\* the matches whose details it wrote, the error it ended with, its exit
\* status.
Output(paths, shown, err, exit) ==
    [paths |-> paths, shown |-> shown, err |-> err, exit |-> exit]

NoOutput == Output(<<>>, <<>>, "", 0)

FindIdle ==
    /\ items = <<>>
    /\ query = <<>>
    /\ matches = <<>>
    /\ fr = "idle"
    /\ json_output = FALSE
    /\ out = NoOutput

ConfigIdle ==
    /\ file = NoFile
    /\ prev = NoFile
    /\ last = NoOp
    /\ got = NoGot

Environment(id, name, workspace) ==
    [id |-> id, name |-> name, workspace |-> workspace]

NoEnvironment == Environment(<<>>, <<>>, <<>>)

NoResult == [kind |-> "none", env |-> NoEnvironment, err |-> "", pairs |-> <<>>]

EnvIdle ==
    /\ envs = <<>>
    /\ id_or_name = <<>>
    /\ workspace_id = <<>>
    /\ pc = "idle"
    /\ calls = <<>>
    /\ listed = <<>>
    /\ result = NoResult

RaceIdle ==
    /\ procs = <<>>
    /\ saved = <<>>
    /\ base = NoFile

(***************************************************************************)
(* Spec: the profile commands, one after another, from no config file.     *)
(***************************************************************************)
Init ==
    /\ file = NoFile
    /\ prev = NoFile
    /\ last = NoOp
    /\ got = NoGot
    /\ RoundTripIdle
    /\ FindIdle
    /\ EnvIdle
    /\ RaceIdle

AddProfile ==
    \E name \in ProfileNames, kl \in KeysAndLabels, set_default \in BOOLEAN :
        LET o == add_profile(file, name, kl.api_key, kl.label, set_default)
        IN  /\ file' = o.file
            /\ prev' = file
            /\ last' = Op("add_profile", name, kl.api_key, kl.label,
                          set_default, o.err, o.config)
            /\ UNCHANGED <<got, registry, reloaded, rt, findVars, envVars, raceVars>>

RemoveProfile ==
    \E name \in ProfileNames :
        LET o == remove_profile(file, name)
        IN  /\ file' = o.file
            /\ prev' = file
            /\ last' = Op("remove_profile", name, <<>>, <<>>, FALSE,
                          o.err, o.config)
            /\ UNCHANGED <<got, registry, reloaded, rt, findVars, envVars, raceVars>>

SetDefaultProfile ==
    \E name \in ProfileNames :
        LET o == set_default_profile(file, name)
        IN  /\ file' = o.file
            /\ prev' = file
            /\ last' = Op("set_default_profile", name, <<>>, <<>>, FALSE,
                          o.err, o.config)
            /\ UNCHANGED <<got, registry, reloaded, rt, findVars, envVars, raceVars>>

Next == AddProfile \/ RemoveProfile \/ SetDefaultProfile

Spec == Init /\ [][Next]_vars

(***************************************************************************)
(* SpecFile: the commands that only read the registry, on a config file    *)
(* as a user may have written it by hand.                                  *)
(***************************************************************************)
MaxSections == 2

HandDefaults == {<<"a">>, <<"b">>, <<"g">>}

HandSections ==
    {section_lines(Profile(name, <<"k">>, label)) :
        name \in ProfileNames, label \in Labels}

RECURSIVE SectionsUpTo(_)
SectionsUpTo(n) ==
    IF n = 0 THEN {<<>>}
    ELSE SectionsUpTo(n - 1)
         \cup {s \o rest : s \in HandSections, rest \in SectionsUpTo(n - 1)}

HandFiles ==
    {NoFile}
    \cup {[exists |-> TRUE, lines |-> head \o body] :
            head \in {<<>>} \cup {<<Line("kv", "default_profile", d)>> :
                                     d \in HandDefaults},
            body \in SectionsUpTo(MaxSections)}

InitFile ==
    /\ file \in HandFiles
    /\ prev = file
    /\ last = NoOp
    /\ got = NoGot
    /\ RoundTripIdle
    /\ FindIdle
    /\ EnvIdle
    /\ RaceIdle

\* profile list: config = load_config()
LoadConfigCmd ==
    LET r == load_config(file)
    IN  /\ last' = Op("load_config", <<>>, <<>>, <<>>, FALSE, r.err, r.config)
        /\ got' = NoGot
        /\ UNCHANGED <<file, prev, registry, reloaded, rt, findVars, envVars, raceVars>>

\* config.get_profile(profile) on what load_config handed back
got_profile(r, name, g) ==
    IF r.err = "ok"
    THEN Got(name, g.err, g.profile, g.available)
    ELSE Got(name, r.err, Profile(<<>>, <<>>, <<>>), <<>>)

\* every remote command: config = load_config(); p = config.get_profile(profile)
GetProfileCmd ==
    \E name \in {NoName} \cup {Named(n) : n \in ProfileNames} :
        LET r == load_config(file)
        IN  /\ last' = Op("get_profile", name.val, <<>>, <<>>, FALSE,
                          r.err, r.config)
            /\ got' = got_profile(r, name, get_profile(r.config, name))
            /\ UNCHANGED <<file, prev, registry, reloaded, rt, findVars, envVars, raceVars>>

NextFile == LoadConfigCmd \/ GetProfileCmd

SpecFile == InitFile /\ [][NextFile]_vars

(***************************************************************************)
(* SpecRoundTrip: save_config(R) followed by load_config(), for the        *)
(* registries R of MaxProfiles profiles at most.                           *)
(***************************************************************************)
MaxProfiles == 2

RoundTripKeys == {<<"k">>, <<"\\">>, <<"\\", "\\">>}

RoundTripProfiles ==
    {Profile(name, api_key, label) :
        name \in ProfileNames, api_key \in RoundTripKeys, label \in Labels}

RECURSIVE ProfilesUpTo(_)
ProfilesUpTo(n) ==
    IF n = 0 THEN {<<>>}
    ELSE ProfilesUpTo(n - 1)
         \cup {Append(ps, p) : ps \in ProfilesUpTo(n - 1), p \in RoundTripProfiles}

Registries ==
    {Config(ps, d) :
        ps \in {q \in ProfilesUpTo(MaxProfiles) :
                   Cardinality(KeySet(q)) = Len(q)},
        d \in ProfileNames \cup {<<>>}}

InitRoundTrip ==
    /\ file = NoFile
    /\ prev = NoFile
    /\ last = NoOp
    /\ got = NoGot
    /\ registry \in Registries
    /\ reloaded = Raise("none")
    /\ rt = "start"
    /\ FindIdle
    /\ EnvIdle
    /\ RaceIdle

SaveConfig ==
    /\ rt = "start"
    /\ file' = save_config(registry)
    /\ rt' = "saved"
    /\ UNCHANGED <<prev, last, got, registry, reloaded, findVars, envVars, raceVars>>

LoadConfig ==
    /\ rt = "saved"
    /\ reloaded' = load_config(file)
    /\ rt' = "loaded"
    /\ UNCHANGED <<file, prev, last, got, registry, findVars, envVars, raceVars>>

NextRoundTrip == SaveConfig \/ LoadConfig

SpecRoundTrip == InitRoundTrip /\ [][NextRoundTrip]_vars

(***************************************************************************)
(* The claims about the config store.                                      *)
(***************************************************************************)
\* The registry a load_config of f returns, and whether it returns one.
Loads(f) == load_config(f).err = "ok"

Loaded(f) == load_config(f).config

\* No config file, or one that defines zero profiles.
RegistryEmpty(f) == load_config(f).err \in {"ConfigNotFound", "EmptyRegistry"}

\* C1: after any sequence of add_profile, remove_profile and
\* set_default_profile from no config file, a persisted registry with at
\* least one profile has a default_profile that names one of its profiles.
C1_DefaultNamesAProfile ==
    Loads(file) =>
        Loaded(file).default_profile \in KeySet(Loaded(file).profiles)

\* C2: add_profile on an empty registry (no config file, or a file that
\* defines zero profiles) succeeds and makes the new name the default,
\* whatever set_default is.
C2_AddToEmptyRegistry ==
    (last.op = "add_profile" /\ RegistryEmpty(prev)) =>
        /\ last.err = "ok"
        /\ last.config.default_profile = last.name

\* C3: remove_profile of the current default yields a registry whose
\* default_profile is the empty string when no profile remains and a key of
\* the remaining profiles otherwise, never the removed name; that registry
\* is what is written to the file.
C3_RemoveDefault ==
    (/\ last.op = "remove_profile"
     /\ last.err = "ok"
     /\ Loaded(prev).default_profile = last.name) =>
        /\ last.name \notin KeySet(last.config.profiles)
        /\ last.config.default_profile # last.name
        /\ last.config.profiles = <<>> => last.config.default_profile = <<>>
        /\ last.config.profiles # <<>> =>
               last.config.default_profile \in KeySet(last.config.profiles)
        /\ file = save_config(last.config)
        /\ file.lines[1] = Line("kv", "default_profile", last.config.default_profile)

\* The default was removed and another profile took its place.
C3_Witness ==
    /\ last.op = "remove_profile"
    /\ last.err = "ok"
    /\ Loaded(prev).default_profile = last.name
    /\ Len(Loaded(prev).profiles) >= 2
    /\ last.config.default_profile \in KeySet(last.config.profiles)

\* C6: set_default_profile(name) with name in the registry changes only
\* default_profile: a reload afterwards gives default_profile = name and
\* the profiles, with their api_key and label, that were there before.
C6_SetDefaultChangesOnlyDefault ==
    (/\ last.op = "set_default_profile"
     /\ Loads(prev)
     /\ last.name \in KeySet(Loaded(prev).profiles)) =>
        /\ Loads(file)
        /\ Loaded(file).default_profile = last.name
        /\ Loaded(file).profiles = Loaded(prev).profiles

\* C13: remove_profile(name) and set_default_profile(name) on a registry
\* that load_config returns and that has no profile of that name fail with
\* ProfileNotFound, and the config file after the call is the file before
\* it; so it is after every config operation that fails.
C13_FailureLeavesFile ==
    /\ (/\ last.op \in {"remove_profile", "set_default_profile"}
        /\ Loads(prev)
        /\ last.name \notin KeySet(Loaded(prev).profiles)) =>
           /\ last.err = "ProfileNotFound"
           /\ file = prev
           /\ Loaded(file) = Loaded(prev)
    /\ (last.op # "none" /\ last.err # "ok") => file = prev

\* remove_profile of an absent name on a registry that holds a profile.
C13_Witness ==
    /\ last.op = "remove_profile"
    /\ last.err = "ProfileNotFound"
    /\ Loads(prev)
    /\ Loaded(prev).profiles # <<>>
    /\ last.name \notin KeySet(Loaded(prev).profiles)

\* C4: for a registry R with at least one profile that load_config returns,
\* get_profile(R, None) does not fail and returns R.profiles[R.default_profile];
\* get_profile with a name absent from R.profiles fails with ProfileNotFound
\* carrying the available names.
C4_GetProfile ==
    (last.op = "get_profile" /\ last.err = "ok") =>
        /\ ~got.given =>
               /\ got.err = "ok"
               /\ last.config.default_profile \in KeySet(last.config.profiles)
               /\ got.profile = Lookup(last.config.profiles,
                                       last.config.default_profile)
        /\ (got.given /\ got.name \notin KeySet(last.config.profiles)) =>
               /\ got.err = "ProfileNotFound"
               /\ got.available = Keys(last.config.profiles)

\* The table headers of a file, in the order they are written.
TableLines(f) == SelectSeq(f.lines, LAMBDA l : l.t = "table")

HasDefaultLine(f) ==
    \E i \in 1..Len(f.lines) :
        f.lines[i].t = "kv" /\ f.lines[i].key = "default_profile"

\* C7: load_config fails with ConfigNotFound when there is no config file
\* and with EmptyRegistry when the file defines zero profiles; when the file
\* defines profiles but no default_profile, the default_profile returned is
\* the first profile the file declares.
C7_LoadConfig ==
    last.op = "load_config" =>
        /\ ~file.exists => last.err = "ConfigNotFound"
        /\ (file.exists /\ TableLines(file) = <<>>) => last.err = "EmptyRegistry"
        /\ (last.err = "ok" /\ ~HasDefaultLine(file)) =>
               /\ TableLines(file) # <<>>
               /\ last.config.default_profile =
                      parse_key(TableLines(file)[1].raw).path[1]
               /\ last.config.default_profile = last.config.profiles[1].name

\* A file of two profiles and no default_profile was loaded.
C7_Witness ==
    /\ last.op = "load_config"
    /\ last.err = "ok"
    /\ ~HasDefaultLine(file)
    /\ Len(last.config.profiles) >= 2

\* C5: for a registry R whose profiles all have a non-empty name and
\* api_key (here: R with at least one profile), save_config(R) followed by
\* load_config() returns a registry equal to R: the same profiles in the
\* same order, with their api_key and label, and the same default_profile.
C5_RoundTrip ==
    (/\ rt = "loaded"
     /\ registry.profiles # <<>>
     /\ \A i \in 1..Len(registry.profiles) :
            /\ registry.profiles[i].name # <<>>
            /\ registry.profiles[i].api_key # <<>>) =>
        reloaded = Return(registry)

(***************************************************************************)
(* cli.py: the lookup of a request by name in a collection's item tree.    *)
(* An item of the tree is a folder, which has an "item" list of its own,   *)
(* or a request.                                                           *)
(***************************************************************************)
Request(name) == [name |-> name, folder |-> FALSE, item |-> <<>>]

Folder(name, children) == [name |-> name, folder |-> TRUE, item |-> children]

\* str.lower() on the characters used here.
LowerChar(c) ==
    CASE c = "A" -> "a"
      [] c = "E" -> "e"
      [] c = "G" -> "g"
      [] c = "L" -> "l"
      [] c = "O" -> "o"
      [] c = "P" -> "p"
      [] c = "R" -> "r"
      [] OTHER   -> c

lower(s) == [i \in 1..Len(s) |-> LowerChar(s[i])]

\* keyword in s
Contains(s, keyword) ==
    \E i \in 0..Len(s) :
        /\ i + Len(keyword) <= Len(s)
        /\ SubSeq(s, i + 1, i + Len(keyword)) = keyword

Match(path, item) == [path |-> path, item |-> item]

RECURSIVE find_requests_casesensitive(_, _, _)
find_requests_casesensitive(its, name, prefix) ==
    IF its = <<>> THEN <<>>
    ELSE LET item == Head(its)
             path == IF prefix # <<>> THEN prefix \o <<"/">> \o item.name
                     ELSE item.name
         IN  (IF item.folder
              THEN find_requests_casesensitive(item.item, name, path)
              ELSE IF Contains(item.name, name)
                   THEN <<Match(path, item)>> ELSE <<>>)
             \o find_requests_casesensitive(Tail(its), name, prefix)

RECURSIVE find_requests(_, _, _)
find_requests(its, name, prefix) ==
    IF its = <<>> THEN <<>>
    ELSE LET item == Head(its)
             path == IF prefix # <<>> THEN prefix \o <<"/">> \o item.name
                     ELSE item.name
         IN  (IF item.folder
              THEN find_requests(item.item, name, path)
              ELSE IF Contains(lower(item.name), lower(name))
                   THEN <<Match(path, item)>> ELSE <<>>)
             \o find_requests(Tail(its), name, prefix)

(***************************************************************************)
(* SpecFind: _find_requests on every item tree of MaxNodes nodes at most.  *)
(***************************************************************************)
MaxNodes == 4

RequestNames == {<<"L", "o">>, <<"l", "o", "g">>}

FolderNames == {<<"A">>, <<"l", "o">>}

Queries == {<<>>, <<"l", "o">>, <<"O", "G">>, <<"A">>}

\* The items of exactly n nodes, and the item lists of exactly n nodes.
RECURSIVE Trees(_), Forests(_)
Trees(n) ==
    (IF n = 1 THEN {Request(nm) : nm \in RequestNames} ELSE {})
    \cup {Folder(nm, children) : nm \in FolderNames, children \in Forests(n - 1)}

Forests(n) ==
    IF n = 0 THEN {<<>>}
    ELSE UNION {{<<t>> \o rest : t \in Trees(k), rest \in Forests(n - k)} :
                   k \in 1..n}

Collections == UNION {Forests(n) : n \in 0..MaxNodes}

InitFind ==
    /\ ConfigIdle
    /\ RoundTripIdle
    /\ items \in Collections
    /\ query \in Queries
    /\ matches = <<>>
    /\ fr = "start"
    /\ json_output = FALSE
    /\ out = NoOutput
    /\ EnvIdle
    /\ RaceIdle

\* matches = _find_requests(collection.get("item", []), name)
FindRequests ==
    /\ fr = "start"
    /\ matches' = find_requests(items, query, <<>>)
    /\ fr' = "done"
    /\ UNCHANGED <<configVars, roundTripVars, items, query, json_output, out,
                   envVars, raceVars>>

NextFind == FindRequests

SpecFind == InitFind /\ [][NextFind]_vars

(***************************************************************************)
(* The claim about the request lookup, stated on the positions of the      *)
(* tree: a position is the list of indices that leads from the root list   *)
(* to a node.                                                              *)
(***************************************************************************)
RECURSIVE Positions(_)
Positions(its) ==
    UNION {{<<i>>} \cup {<<i>> \o p : p \in Positions(its[i].item)} :
              i \in 1..Len(its)}

RECURSIVE NodeAt(_, _)
NodeAt(its, pos) ==
    IF Len(pos) = 1 THEN its[pos[1]]
    ELSE NodeAt(its[pos[1]].item, Tail(pos))

\* The names from the root down to the node at pos, joined by "/".
RECURSIVE JoinedNames(_, _, _)
JoinedNames(its, pos, k) ==
    IF k = 1 THEN NodeAt(its, SubSeq(pos, 1, 1)).name
    ELSE JoinedNames(its, pos, k - 1) \o <<"/">>
         \o NodeAt(its, SubSeq(pos, 1, k)).name

\* p comes before q in depth-first declaration order.
Before(p, q) ==
    \E k \in 1..Len(q) :
        /\ k <= Len(p) + 1
        /\ SubSeq(p, 1, k - 1) = SubSeq(q, 1, k - 1)
        /\ k = Len(p) + 1 \/ p[k] < q[k]

RECURSIVE InOrder(_)
InOrder(S) ==
    IF S = {} THEN <<>>
    ELSE LET first == CHOOSE p \in S : \A q \in S \ {p} : Before(p, q)
         IN  <<first>> \o InOrder(S \ {first})

\* The positions of the requests whose name contains q, whatever the case.
MatchingRequests(its, q) ==
    {p \in Positions(its) :
        /\ ~NodeAt(its, p).folder
        /\ Contains(lower(NodeAt(its, p).name), lower(q))}

Expected(its, q) ==
    LET ps == InOrder(MatchingRequests(its, q))
    IN  [i \in 1..Len(ps) |->
            Match(JoinedNames(its, ps[i], Len(ps[i])), NodeAt(its, ps[i]))]

paths_of(ms) == [i \in 1..Len(ms) |-> ms[i].path]

\* the formatted output of a non-empty result: the paths are listed when
\* there are several matches, and the details are those of matches[0]
show_first(ms) ==
    Output(IF Len(ms) > 1 THEN paths_of(ms) ELSE <<>>, <<ms[1]>>, "", 0)

\* collection = client.get_collection(uid) raises: the error leaves the command
GetCollectionFails ==
    /\ fr = "start"
    /\ out' = Output(<<>>, <<>>, "RemoteError", 1)
    /\ fr' = "exit"
    /\ UNCHANGED <<configVars, roundTripVars, items, query, matches,
                   json_output, envVars, raceVars>>

\* if not matches: ... raise typer.Exit(1), in both output modes
NoMatch ==
    /\ fr = "done"
    /\ matches = <<>>
    /\ out' = Output(<<>>, <<>>, "NotFound", 1)
    /\ fr' = "exit"
    /\ UNCHANGED <<configVars, roundTripVars, items, query, matches,
                   json_output, envVars, raceVars>>

\* if _json_output: data = [{"path": path, **item} for path, item in matches];
\* _print_json(data); raise typer.Exit()
PrintJson ==
    /\ fr = "done"
    /\ matches # <<>>
    /\ json_output
    /\ out' = Output(paths_of(matches), matches, "", 0)
    /\ fr' = "exit"
    /\ UNCHANGED <<configVars, roundTripVars, items, query, matches,
                   json_output, envVars, raceVars>>

\* the formatted output: path, item = matches[0] and the details of item
ShowFirst ==
    /\ fr = "done"
    /\ matches # <<>>
    /\ ~json_output
    /\ out' = show_first(matches)
    /\ fr' = "exit"
    /\ UNCHANGED <<configVars, roundTripVars, items, query, matches,
                   json_output, envVars, raceVars>>

(***************************************************************************)
(* SpecRequest: one run of collections request, in either output mode, on  *)
(* every item tree of MaxNodes nodes at most.                              *)
(***************************************************************************)
InitRequest ==
    /\ ConfigIdle
    /\ RoundTripIdle
    /\ items \in Collections
    /\ query \in Queries
    /\ matches = <<>>
    /\ fr = "start"
    /\ json_output \in BOOLEAN
    /\ out = NoOutput
    /\ EnvIdle
    /\ RaceIdle

NextRequest ==
    \/ GetCollectionFails
    \/ FindRequests
    \/ NoMatch
    \/ PrintJson
    \/ ShowFirst

SpecRequest == InitRequest /\ [][NextRequest]_vars

\* C12: when collections request ends after the lookup, zero matches end
\* it with NotFound and a non-zero exit status, and several matches have it
\* list the paths of all of them and show the details of the first one
\* only, in the formatted and in the JSON output mode alike.
C12_CallerPolicy ==
    (fr = "exit" /\ out.err # "RemoteError") =>
        /\ matches = <<>> => (out.err = "NotFound" /\ out.exit # 0)
        /\ Len(matches) > 1 =>
               /\ out.paths = paths_of(matches)
               /\ out.shown = <<matches[1]>>

(***************************************************************************)
(* cli.py: _resolve_and_get_environment.  The function makes up to three   *)
(* calls of the API client; each call either hands back what the remote    *)
(* service holds or fails (a non-2xx response, a transport error), and the *)
(* function is modelled call by call.                                      *)
(***************************************************************************)
Returned(env) == [kind |-> "env", env |-> env, err |-> "", pairs |-> <<>>]

Raised(err, pairs) ==
    [kind |-> "error", env |-> NoEnvironment, err |-> err, pairs |-> pairs]

Call(op, arg, ok) == [op |-> op, arg |-> arg, ok |-> ok]

\* GET /environments, with params {"workspace": workspace_id} when
\* workspace_id is set: the environments of that workspace, or all of them.
list_environments(ws) ==
    SelectSeq(envs, LAMBDA e : ws = <<>> \/ e.workspace = ws)

\* matches = [e for e in environments if e["name"] == id_or_name]
name_matches_exact(environments, name) ==
    SelectSeq(environments, LAMBDA e : e.name = name)

\* matches = [e for e in environments if e["name"].lower() == id_or_name.lower()]
name_matches(environments, name) ==
    SelectSeq(environments, LAMBDA e : lower(e.name) = lower(name))

\* ", ".join(f'{m["name"]} ({m["id"]})' for m in matches)
name_id_pairs(ms) == [i \in 1..Len(ms) |-> <<ms[i].name, ms[i].id>>]

\* return client.get_environment(id_or_name), when the fetch succeeds, but
\* going on to the list all the same.
DirectFetchOk_GoesOn ==
    /\ pc = "start"
    /\ \E i \in 1..Len(envs) :
          /\ envs[i].id = id_or_name
          /\ result' = Returned(envs[i])
    /\ calls' = Append(calls, Call("get_environment", id_or_name, TRUE))
    /\ pc' = "list"
    /\ UNCHANGED <<configVars, roundTripVars, findVars, raceVars,
                   envs, id_or_name, workspace_id, listed>>

\* return client.get_environment(id_or_name), when the fetch succeeds
DirectFetchOk ==
    /\ pc = "start"
    /\ \E i \in 1..Len(envs) :
          /\ envs[i].id = id_or_name
          /\ result' = Returned(envs[i])
    /\ calls' = Append(calls, Call("get_environment", id_or_name, TRUE))
    /\ pc' = "done"
    /\ UNCHANGED <<configVars, roundTripVars, findVars, raceVars,
                   envs, id_or_name, workspace_id, listed>>

\* client.get_environment(id_or_name) raises: except Exception: pass
DirectFetchFails ==
    /\ pc = "start"
    /\ calls' = Append(calls, Call("get_environment", id_or_name, FALSE))
    /\ pc' = "list"
    /\ UNCHANGED <<configVars, roundTripVars, findVars, raceVars,
                   envs, id_or_name, workspace_id, listed, result>>

\* The list arrives; what follows it up to the next call or the end.
AfterList(ms) ==
    /\ listed' = ms
    /\ calls' = Append(calls, Call("list_environments", workspace_id, TRUE))
    /\ IF Len(ms) = 1
       THEN pc' = "fetch" /\ UNCHANGED result
       ELSE /\ pc' = "done"
            /\ result' = IF Len(ms) > 1
                         THEN Raised("AmbiguousMatch", name_id_pairs(ms))
                         ELSE Raised("NotFound", <<>>)
    /\ UNCHANGED <<configVars, roundTripVars, findVars, raceVars,
                   envs, id_or_name, workspace_id>>

ListOk_CaseSensitive ==
    /\ pc = "list"
    /\ AfterList(name_matches_exact(list_environments(workspace_id), id_or_name))

\* environments = client.list_environments(workspace_id=workspace_id)
ListOk ==
    /\ pc = "list"
    /\ AfterList(name_matches(list_environments(workspace_id), id_or_name))

\* client.list_environments raises: the error leaves the function
ListFails ==
    /\ pc = "list"
    /\ calls' = Append(calls, Call("list_environments", workspace_id, FALSE))
    /\ result' = Raised("RemoteError", <<>>)
    /\ pc' = "done"
    /\ UNCHANGED <<configVars, roundTripVars, findVars, raceVars,
                   envs, id_or_name, workspace_id, listed>>

\* return client.get_environment(matches[0]["id"]), when the fetch succeeds
FetchMatchOk ==
    /\ pc = "fetch"
    /\ \E i \in 1..Len(envs) :
          /\ envs[i].id = listed[1].id
          /\ result' = Returned(envs[i])
    /\ calls' = Append(calls, Call("get_environment", listed[1].id, TRUE))
    /\ pc' = "done"
    /\ UNCHANGED <<configVars, roundTripVars, findVars, raceVars,
                   envs, id_or_name, workspace_id, listed>>

\* client.get_environment(matches[0]["id"]) raises: the error leaves the function
FetchMatchFails ==
    /\ pc = "fetch"
    /\ calls' = Append(calls, Call("get_environment", listed[1].id, FALSE))
    /\ result' = Raised("RemoteError", <<>>)
    /\ pc' = "done"
    /\ UNCHANGED <<configVars, roundTripVars, findVars, raceVars,
                   envs, id_or_name, workspace_id, listed>>

(***************************************************************************)
(* SpecEnv: one resolution against a remote service of MaxEnvs             *)
(* environments at most; the i-th environment has the id "e<i>".           *)
(***************************************************************************)
MaxEnvs == 2

EnvId(i) == <<"e", ToString(i)>>

EnvNames == {<<"P", "r">>, <<"p", "r">>, <<"e", "1">>}

Workspaces == {<<"v">>, <<"w">>}

Identifiers == {<<"p", "r">>, <<"P", "R">>, <<"e", "1">>, <<"E", "1">>, <<"z">>}

Scopes == {<<>>, <<"w">>}

Remotes ==
    UNION {{[i \in 1..n |-> Environment(EnvId(i), nm[i], ws[i])] :
               nm \in [1..n -> EnvNames], ws \in [1..n -> Workspaces]} :
              n \in 0..MaxEnvs}

InitEnv ==
    /\ ConfigIdle
    /\ RoundTripIdle
    /\ FindIdle
    /\ envs \in Remotes
    /\ id_or_name \in Identifiers
    /\ workspace_id \in Scopes
    /\ pc = "start"
    /\ calls = <<>>
    /\ listed = <<>>
    /\ result = NoResult
    /\ RaceIdle

NextEnv ==
    \/ DirectFetchOk
    \/ DirectFetchFails
    \/ ListOk
    \/ ListFails
    \/ FetchMatchOk
    \/ FetchMatchFails

SpecEnv == InitEnv /\ [][NextEnv]_vars

(***************************************************************************)
(* The claims about the environment resolution.                            *)
(***************************************************************************)
\* The environments in scope whose name is the input, whatever the case.
InScopeMatches ==
    {i \in 1..Len(envs) :
        /\ workspace_id = <<>> \/ envs[i].workspace = workspace_id
        /\ lower(envs[i].name) = lower(id_or_name)}

\* C9: when the direct fetch get_environment(id_or_name) succeeds, its
\* result is returned and list_environments is never called, also when
\* other environments carry that string as their name.
C9_DirectFetchReturns ==
    (Len(calls) >= 1 /\ calls[1].ok) =>
        /\ pc = "done"
        /\ calls = <<Call("get_environment", id_or_name, TRUE)>>
        /\ result.kind = "env"
        /\ result.env.id = id_or_name
        /\ \E i \in 1..Len(envs) : result.env = envs[i]

\* The direct fetch succeeded while another environment is named like the id.
C9_Witness ==
    /\ pc = "done"
    /\ Len(calls) >= 1
    /\ calls[1].ok
    /\ \E i \in 1..Len(envs) :
          envs[i].name = id_or_name /\ envs[i].id # id_or_name

\* C10: when the direct fetch fails and the list arrives, with M the
\* environments in scope whose name equals the input case-insensitively:
\* no element, NotFound; one element, the environment with that element's
\* id is fetched and that fetch's outcome is the function's (the
\* environment, or the fetch's RemoteError); several, AmbiguousMatch naming
\* the (name, id) pair of every element of M, with no further fetch.
C10_NameResolution ==
    (/\ pc = "done"
     /\ Len(calls) >= 2
     /\ ~calls[1].ok
     /\ calls[2].ok) =>
        /\ calls[1] = Call("get_environment", id_or_name, FALSE)
        /\ calls[2] = Call("list_environments", workspace_id, TRUE)
        /\ InScopeMatches = {} =>
               /\ result = Raised("NotFound", <<>>)
               /\ Len(calls) = 2
        /\ Cardinality(InScopeMatches) = 1 =>
               LET m == CHOOSE i \in InScopeMatches : TRUE
               IN  /\ Len(calls) = 3
                   /\ calls[3].op = "get_environment"
                   /\ calls[3].arg = envs[m].id
                   /\ calls[3].ok => result = Returned(envs[m])
                   /\ ~calls[3].ok => result = Raised("RemoteError", <<>>)
        /\ Cardinality(InScopeMatches) > 1 =>
               /\ result.kind = "error"
               /\ result.err = "AmbiguousMatch"
               /\ Len(result.pairs) = Cardinality(InScopeMatches)
               /\ {result.pairs[k] : k \in 1..Len(result.pairs)}
                      = {<<envs[i].name, envs[i].id>> : i \in InScopeMatches}
               /\ Len(calls) = 2

\* Two environments whose names differ from the input only in case.
C10_Witness ==
    /\ pc = "done"
    /\ result.err = "AmbiguousMatch"
    /\ Len(result.pairs) = 2
    /\ result.pairs[1][1] # id_or_name
    /\ result.pairs[1][1] # result.pairs[2][1]

\* C11: a failed API call is terminal for the command: no API call follows
\* it, and the function ends by raising that call's RemoteError.
C11_ErrorsAreTerminal ==
    /\ \A k \in 1..Len(calls) : ~calls[k].ok => k = Len(calls)
    /\ (pc = "done" /\ \E k \in 1..Len(calls) : ~calls[k].ok) =>
           result = Raised("RemoteError", <<>>)

(***************************************************************************)
(* Two invocations of the profile commands at once.  Each is a             *)
(* load_config, the change of the registry in memory, and one save_config  *)
(* that writes the whole file; nothing in config.py locks the file, so the *)
(* steps of the two interleave freely.                                     *)
(***************************************************************************)
Procs == {1, 2}

Command(op, name, api_key, label, set_default) ==
    [op |-> op, name |-> name, api_key |-> api_key, label |-> label,
     set_default |-> set_default]

\* profile add, profile remove and profile switch with their arguments
Commands ==
    {Command("add_profile", name, kl.api_key, kl.label, set_default) :
        name \in ProfileNames, kl \in KeysAndLabels, set_default \in BOOLEAN}
    \cup {Command(op, name, <<>>, <<>>, FALSE) :
             op \in {"remove_profile", "set_default_profile"},
             name \in ProfileNames}

\* The command on the file f, from its load_config to its save_config.
run(cmd, f) ==
    IF cmd.op = "add_profile"
    THEN add_profile(f, cmd.name, cmd.api_key, cmd.label, cmd.set_default)
    ELSE IF cmd.op = "remove_profile" THEN remove_profile(f, cmd.name)
    ELSE set_default_profile(f, cmd.name)

Invocation(cmd) ==
    [cmd |-> cmd, at |-> "load", first |-> FALSE,
     o |-> Outcome("none", EmptyConfig, NoFile)]

\* config = load_config() and the change in memory: o holds the registry
\* the invocation is about to save, or the error it ends with; first says
\* that nobody had written the file yet.
loaded(q, o, first) ==
    [q EXCEPT !.o = o, !.first = first,
              !.at = IF o.err = "ok" THEN "save" ELSE "done"]

\* what a save of q leaves in the file f, had it read f again before writing
written_reloaded(f, q) == run(q.cmd, f).file

\* CONFIG_FILE.write_text("\n".join(lines)): the file becomes the lines of
\* q's registry, whatever f held
written(f, q) == q.o.file

\* The files an invocation may find: none, or the one profile add a k left.
StartFiles ==
    {NoFile, save_config(Config(<<Profile(<<"a">>, <<"k">>, <<>>)>>, <<"a">>))}

InitRace ==
    /\ file \in StartFiles
    /\ prev = NoFile
    /\ last = NoOp
    /\ got = NoGot
    /\ RoundTripIdle
    /\ FindIdle
    /\ EnvIdle
    /\ procs \in [Procs -> {Invocation(cmd) : cmd \in Commands}]
    /\ saved = <<>>
    /\ base = file

Load(p) ==
    /\ procs[p].at = "load"
    /\ procs' = [procs EXCEPT
                    ![p] = loaded(@, run(@.cmd, file), saved = <<>>)]
    /\ UNCHANGED <<configVars, roundTripVars, findVars, envVars, saved, base>>

Save(p) ==
    /\ procs[p].at = "save"
    /\ file' = written(file, procs[p])
    /\ procs' = [procs EXCEPT ![p].at = "done"]
    /\ saved' = Append(saved, p)
    /\ UNCHANGED <<prev, last, got, roundTripVars, findVars, envVars, base>>

NextRace == \E p \in Procs : Load(p) \/ Save(p)

SpecRace == InitRace /\ [][NextRace]_vars

\* C14: when both invocations load before either saves and both save, the
\* file left is the one the later saver alone would have left from the
\* file before: the earlier saver's change is not in it.
C14_LostUpdate ==
    (/\ Len(saved) = 2
     /\ \A p \in Procs : procs[p].first) =>
        file = run(procs[saved[2]].cmd, base).file

\* Two add_profile of different names from no file, both saved: one profile.
C14_Witness ==
    /\ Len(saved) = 2
    /\ \A p \in Procs : procs[p].first /\ procs[p].cmd.op = "add_profile"
    /\ procs[1].cmd.name = <<"a">>
    /\ procs[2].cmd.name = <<"b">>
    /\ base = NoFile
    /\ Loads(file)
    /\ Len(Loaded(file).profiles) = 1

====
